---- MODULE Spec2Model ----
(***************************************************************************)
(* A model of the AME2020 mass-table reader (src/src/lib.rs).              *)
(*                                                                         *)
(* A line is the sequence of its bytes (0..255), as Rust's str is a UTF-8  *)
(* byte string: column ranges are byte offsets, and a range that does not  *)
(* fall on a character boundary cannot be sliced.  The line source         *)
(* (std::io::Lines) is the sequence of its items, each a decoded line or a *)
(* read failure.  One action, Call, is one call of Iter::next.             *)
(***************************************************************************)
EXTENDS Integers, Sequences, FiniteSets, TLC

\* Longest line source of the scanner inputs.
MaxLines == 4

-----------------------------------------------------------------------------
(* Results, options and errors                                             *)

Ok(v) == [ok |-> TRUE, v |-> v]
Err(e) == [ok |-> FALSE, e |-> e]

None == [some |-> FALSE]
Some(v) == [some |-> TRUE, v |-> v]

\* AmeError: the variant and what it carries.
Io(kind) == [kind |-> "Io", of |-> kind]
ParseInt(kind) == [kind |-> "ParseInt", of |-> kind]
ParseFloat(kind) == [kind |-> "ParseFloat", of |-> kind]
TooShortLine == [kind |-> "TooShortLine"]
StrIndex == [kind |-> "StrIndex"]

\* The expect on the element symbol, when it fails.
ElementPanic == [kind |-> "panic"]

-----------------------------------------------------------------------------
(* Bytes and text                                                          *)

\* The characters the reader names.
PageFeed == 49
LineFeed == 48
Hash == 35
Dot == 46
Star == 42

Digits == 48..57
WhiteSpace == {9, 10, 11, 12, 13, 32}

\* str::is_char_boundary: offset 0, the length, or a byte that is no
\* continuation byte (10xxxxxx).
is_char_boundary(s, i) ==
  \/ i = 0
  \/ i = Len(s)
  \/ /\ i < Len(s)
     /\ (s[i + 1] < 128 \/ s[i + 1] >= 192)

\* str::get(range): the slice, or nothing when the range is out of bounds,
\* reversed, or cuts a character.
get(s, r) ==
  IF /\ r.start <= r.end
     /\ r.end <= Len(s)
     /\ is_char_boundary(s, r.start)
     /\ is_char_boundary(s, r.end)
  THEN Some(SubSeq(s, r.start + 1, r.end))
  ELSE None

RECURSIVE trim_start(_)
trim_start(s) ==
  IF s # <<>> /\ s[1] \in WhiteSpace THEN trim_start(Tail(s)) ELSE s

RECURSIVE trim_end(_)
trim_end(s) ==
  IF s # <<>> /\ s[Len(s)] \in WhiteSpace
  THEN trim_end(SubSeq(s, 1, Len(s) - 1))
  ELSE s

\* str::trim
trim(s) == trim_end(trim_start(s))

\* str::starts_with(char)
starts_with(s, c) == s # <<>> /\ s[1] = c

\* str::contains(char)
contains(s, c) == \E i \in 1..Len(s) : s[i] = c

\* str::replace(from, to), for one-byte characters.
replace(s, from, to) == [i \in 1..Len(s) |-> IF s[i] = from THEN to ELSE s[i]]

-----------------------------------------------------------------------------
(* Number parsing (str::parse)                                             *)

\* The longest prefix of digits.
RECURSIVE DigitPrefix(_)
DigitPrefix(s) ==
  IF s # <<>> /\ s[1] \in Digits
  THEN <<s[1] - 48>> \o DigitPrefix(Tail(s))
  ELSE <<>>

Drop(s, k) == SubSeq(s, k + 1, Len(s))

RECURSIVE StripZeros(_)
StripZeros(d) == IF d # <<>> /\ d[1] = 0 THEN StripZeros(Tail(d)) ELSE d

\* d <= m for digit strings of one length.
RECURSIVE DigitsLeq(_, _)
DigitsLeq(d, m) ==
  \/ d = <<>>
  \/ d[1] < m[1]
  \/ d[1] = m[1] /\ DigitsLeq(Tail(d), Tail(m))

\* Whether the number a digit string writes is at most the one max writes.
Fits(d, max) ==
  LET t == StripZeros(d) IN
  \/ Len(t) < Len(max)
  \/ Len(t) = Len(max) /\ DigitsLeq(t, max)

RECURSIVE DigitsValue(_, _)
DigitsValue(d, acc) ==
  IF d = <<>> THEN acc ELSE DigitsValue(Tail(d), 10 * acc + d[1])

U32Max == <<4, 2, 9, 4, 9, 6, 7, 2, 9, 5>>
U16Max == <<6, 5, 5, 3, 5>>

\* <unsigned>::from_str: an optional '+', then digits only; the value must
\* fit the type.
parse_unsigned(s, max) ==
  IF s = <<>> THEN Err(ParseInt("Empty"))
  ELSE IF Len(s) = 1 /\ s[1] \in {43, 45} THEN Err(ParseInt("InvalidDigit"))
  ELSE LET t == IF s[1] = 43 THEN Tail(s) ELSE s
           d == DigitPrefix(t)
       IN IF Len(d) # Len(t) THEN Err(ParseInt("InvalidDigit"))
          ELSE IF ~Fits(d, max) THEN Err(ParseInt("PosOverflow"))
          ELSE Ok(DigitsValue(StripZeros(d), 0))

\* ASCII lower case.
Lower(s) == [i \in 1..Len(s) |-> IF s[i] \in 65..90 THEN s[i] + 32 ELSE s[i]]

InfNanWords ==
  { <<105, 110, 102>>,
    <<105, 110, 102, 105, 110, 105, 116, 121>>,
    <<110, 97, 110>> }

\* The exponent part: nothing, or 'e', an optional sign and digits.
ParseExp(s) ==
  IF s = <<>> THEN Some([neg |-> FALSE, digits |-> <<>>])
  ELSE IF s[1] \notin {101, 69} THEN None
  ELSE LET t == Tail(s)
           signed == t # <<>> /\ t[1] \in {43, 45}
           u == IF signed THEN Tail(t) ELSE t
           d == DigitPrefix(u)
       IN IF d = <<>> \/ Len(d) # Len(u) THEN None
          ELSE Some([neg |-> signed /\ t[1] = 45, digits |-> d])

\* f64::from_str.  The value is kept as the decimal the text writes: sign,
\* integer digits, fraction digits and exponent.
parse_f64(s) ==
  IF s = <<>> THEN Err(ParseFloat("Empty"))
  ELSE LET signed == s[1] \in {43, 45}
           neg == s[1] = 45
           t == IF signed THEN Tail(s) ELSE s
           ip == DigitPrefix(t)
           a == Drop(t, Len(ip))
           dotted == a # <<>> /\ a[1] = 46
           fp == IF dotted THEN DigitPrefix(Tail(a)) ELSE <<>>
           b == IF dotted THEN Drop(a, 1 + Len(fp)) ELSE a
           ex == ParseExp(b)
       IN IF Lower(t) \in InfNanWords
          THEN Ok([cls |-> IF Lower(t)[1] = 110 THEN "nan" ELSE "inf",
                   neg |-> neg])
          ELSE IF Len(ip) + Len(fp) = 0 \/ ~ex.some
          THEN Err(ParseFloat("Invalid"))
          ELSE Ok([cls |-> "dec", neg |-> neg, int |-> ip, frac |-> fp,
                   exp |-> ex.v])

\* f64 arithmetic of the reader, kept as terms over the parsed decimals.
MulF64(x, factor) == [cls |-> "mul", x |-> x, by |-> factor]
AddF64(x, y) == [cls |-> "add", x |-> x, y |-> y]
FromU16(n) == [cls |-> "int", n |-> n]

-----------------------------------------------------------------------------
(* The field extractor                                                     *)

Range(a, b) == [start |-> a, end |-> b]

\* Column layout of a data line.
RangeN == Range(4, 9)
RangeZ == Range(9, 14)
\* A range for the element that is wider than the element's capacity.
RangeElement_wide == Range(18, 22)

RangeElement == Range(20, 23)
RangeMassExcessMean == Range(28, 42)
RangeMassExcessUnc == Range(42, 54)
RangeBindingMean == Range(54, 67)
RangeBindingUnc == Range(68, 78)
RangeBetaFlag == Range(87, 88)
RangeBetaMean == Range(81, 94)
RangeBetaUnc == Range(94, 105)
RangeMassInt == Range(106, 109)
RangeMassMean == Range(110, 123)
RangeMassUnc(line) == Range(123, Len(line))

ElementCapacity == 3

\* range_err where an empty range counts as a short line.
range_err_empty_is_short(line, range) ==
  IF Len(line) < range.end \/ range.start = range.end
  THEN Err(TooShortLine)
  ELSE LET got == get(line, range)
       IN IF got.some THEN Ok(trim(got.v)) ELSE Err(StrIndex)

\* range_err without the length check.
range_err_unchecked(line, range) ==
  LET got == get(line, range)
  IN IF got.some THEN Ok(trim(got.v)) ELSE Err(StrIndex)

\* range_err where a range that cannot be sliced counts as a short line.
range_err_cut_is_short(line, range) ==
  LET got == get(line, range)
  IN IF got.some THEN Ok(trim(got.v)) ELSE Err(TooShortLine)

range_err(line, range) ==
  IF Len(line) < range.end THEN Err(TooShortLine)
  ELSE LET got == get(line, range)
       IN IF got.some THEN Ok(trim(got.v)) ELSE Err(StrIndex)

\* The ? operator on a sequence of steps: the first failure, in order, is
\* what the function returns.
RECURSIVE FirstFailure(_)
FirstFailure(steps) ==
  IF steps = <<>> THEN None
  ELSE IF ~Head(steps).ok THEN Some(Head(steps))
  ELSE FirstFailure(Tail(steps))

\* An integer column whose parse failure is reported as a float's.
parse_unsigned_in_as_float(text, max) ==
  IF ~text.ok THEN text
  ELSE IF parse_unsigned(text.v, max).ok THEN parse_unsigned(text.v, max)
  ELSE Err(ParseFloat("Invalid"))

\* range_err(..)?.parse::<u32 or u16>()
parse_unsigned_in(text, max) ==
  IF text.ok THEN parse_unsigned(text.v, max) ELSE text

\* range_err(..)?.parse::<f64>()
parse_f64_in(text) == IF text.ok THEN parse_f64(text.v) ELSE text

Value(mean, uncertainty, is_estimated) ==
  LET failed == FirstFailure(<<mean, uncertainty>>) IN
  IF failed.some THEN failed.v
  ELSE Ok([mean |-> mean.v,
           uncertainty |-> uncertainty.v,
           is_estimated |-> is_estimated])

parse_value(s_mean, r_mean, s_unc, r_unc) ==
  Value(parse_f64_in(range_err(replace(s_mean, Hash, Dot), r_mean)),
        parse_f64_in(range_err(replace(s_unc, Hash, Dot), r_unc)),
        contains(s_mean, Hash))

\* ArrayString::from(..).expect(..)
element_of(text) ==
  IF text.ok /\ Len(text.v) > ElementCapacity THEN Err(ElementPanic) ELSE text

\* beta_of where the beta decay columns are parsed whatever the flag says.
beta_of_eager(flag, line) ==
  IF ~flag.ok THEN flag
  ELSE LET value == parse_value(line, RangeBetaMean, line, RangeBetaUnc)
       IN IF ~value.ok THEN value
          ELSE IF flag.v # <<Star>> THEN Ok(Some(value.v)) ELSE Ok(None)

\* (flag != "*").then(|| parse_value(..)).transpose()
beta_of(flag, line) ==
  IF ~flag.ok THEN flag
  ELSE IF flag.v # <<Star>>
  THEN LET value == parse_value(line, RangeBetaMean, line, RangeBetaUnc)
       IN IF value.ok THEN Ok(Some(value.v)) ELSE value
  ELSE Ok(None)

\* Nuclide where the integer part of the atomic mass is extracted before
\* its fractional pair.
Nuclide_int_first(n, z, element, mass_excess, binding_energy_per_a, beta_decay_energy, atomic_mass, int) ==
  LET failed == FirstFailure(<<n, z, element, mass_excess,
                               binding_energy_per_a, beta_decay_energy,
                               int, atomic_mass>>) IN
  IF failed.some THEN failed.v
  ELSE Ok([n |-> n.v,
           z |-> z.v,
           element |-> element.v,
           mass_excess |-> mass_excess.v,
           binding_energy_per_a |-> binding_energy_per_a.v,
           beta_decay_energy |-> beta_decay_energy.v,
           atomic_mass |->
             [mean |-> AddF64(MulF64(atomic_mass.v.mean, "1e-6"),
                              FromU16(int.v)),
              uncertainty |-> MulF64(atomic_mass.v.uncertainty, "1e-6"),
              is_estimated |-> atomic_mass.v.is_estimated]])

\* Nuclide where the integer part is added to the uncertainty as well.
Nuclide_int_in_uncertainty(n, z, element, mass_excess, binding_energy_per_a, beta_decay_energy, atomic_mass, int) ==
  LET failed == FirstFailure(<<n, z, element, mass_excess,
                               binding_energy_per_a, beta_decay_energy,
                               atomic_mass, int>>) IN
  IF failed.some THEN failed.v
  ELSE Ok([n |-> n.v,
           z |-> z.v,
           element |-> element.v,
           mass_excess |-> mass_excess.v,
           binding_energy_per_a |-> binding_energy_per_a.v,
           beta_decay_energy |-> beta_decay_energy.v,
           atomic_mass |->
             [mean |-> AddF64(MulF64(atomic_mass.v.mean, "1e-6"),
                              FromU16(int.v)),
              uncertainty |->
                AddF64(MulF64(atomic_mass.v.uncertainty, "1e-6"),
                       FromU16(int.v)),
              is_estimated |-> atomic_mass.v.is_estimated]])

Nuclide(n, z, element, mass_excess, binding_energy_per_a, beta_decay_energy, atomic_mass, int) ==
  LET failed == FirstFailure(<<n, z, element, mass_excess,
                               binding_energy_per_a, beta_decay_energy,
                               atomic_mass, int>>) IN
  IF failed.some THEN failed.v
  ELSE Ok([n |-> n.v,
           z |-> z.v,
           element |-> element.v,
           mass_excess |-> mass_excess.v,
           binding_energy_per_a |-> binding_energy_per_a.v,
           beta_decay_energy |-> beta_decay_energy.v,
           atomic_mass |->
             [mean |-> AddF64(MulF64(atomic_mass.v.mean, "1e-6"),
                              FromU16(int.v)),
              uncertainty |-> MulF64(atomic_mass.v.uncertainty, "1e-6"),
              is_estimated |-> atomic_mass.v.is_estimated]])

\* The extractions in the order of the code; each ? returns the failure.
inner(line) ==
  Nuclide(parse_unsigned_in(range_err(line, RangeN), U32Max),
          parse_unsigned_in(range_err(line, RangeZ), U32Max),
          element_of(range_err(line, RangeElement)),
          parse_value(line, RangeMassExcessMean, line, RangeMassExcessUnc),
          parse_value(line, RangeBindingMean, line, RangeBindingUnc),
          beta_of(range_err(line, RangeBetaFlag), line),
          parse_value(line, RangeMassMean, line, RangeMassUnc(line)),
          parse_unsigned_in(range_err(line, RangeMassInt), U16Max))

-----------------------------------------------------------------------------
(* The record scanner                                                      *)

\* ReadState
Start == "Start"
Preamble == "Preamble"
Headers == "Headers"
Body == "Body"

Continue(st) == [flow |-> "Continue", state |-> st]
Break(st, res) == [flow |-> "Break", state |-> st, res |-> res]

\* From<io::Error> that forgets the kind.
from_io_error_other(kind) == Io("Other")

\* From<io::Error> for AmeError: the error's kind, kept.
from_io_error(kind) == Io(kind)

\* parse_line without the preamble: a line starting with '0' is a data line
\* in every state.
parse_line_no_preamble(st, line) ==
  IF st = Body \/ starts_with(line, LineFeed)
  THEN Break(Body, inner(line))
  ELSE IF starts_with(line, PageFeed)
  THEN Continue(IF st = Start THEN Preamble ELSE Headers)
  ELSE Continue(st)

\* parse_line where a page feed in Headers opens a preamble again.
parse_line_toggle(st, line) ==
  CASE st = Start ->
         Continue(IF starts_with(line, PageFeed) THEN Preamble ELSE st)
    [] st = Preamble ->
         Continue(IF starts_with(line, PageFeed) THEN Headers ELSE st)
    [] st = Headers ->
         IF starts_with(line, LineFeed)
         THEN Break(Body, inner(line))
         ELSE Continue(IF starts_with(line, PageFeed) THEN Preamble ELSE st)
    [] st = Body -> Break(st, inner(line))

\* parse_line where the line that ends the headers is passed over.
parse_line_skip_first(st, line) ==
  CASE st = Start ->
         Continue(IF starts_with(line, PageFeed) THEN Preamble ELSE st)
    [] st = Preamble ->
         Continue(IF starts_with(line, PageFeed) THEN Headers ELSE st)
    [] st = Headers ->
         Continue(IF starts_with(line, LineFeed) THEN Body ELSE st)
    [] st = Body -> Break(st, inner(line))

\* parse_line where Body looks at the first character again.
parse_line_revalidate(st, line) ==
  CASE st = Start ->
         Continue(IF starts_with(line, PageFeed) THEN Preamble ELSE st)
    [] st = Preamble ->
         Continue(IF starts_with(line, PageFeed) THEN Headers ELSE st)
    [] st \in {Headers, Body} ->
         IF starts_with(line, LineFeed)
         THEN Break(Body, inner(line))
         ELSE Continue(st)

\* parse_line where a line that fails to parse sends the scanner back to
\* Headers, to look for the next line starting with '0'.
parse_line_resync(st, line) ==
  CASE st = Start ->
         Continue(IF starts_with(line, PageFeed) THEN Preamble ELSE st)
    [] st = Preamble ->
         Continue(IF starts_with(line, PageFeed) THEN Headers ELSE st)
    [] st = Headers ->
         IF starts_with(line, LineFeed)
         THEN Break(IF inner(line).ok THEN Body ELSE Headers, inner(line))
         ELSE Continue(st)
    [] st = Body ->
         Break(IF inner(line).ok THEN Body ELSE Headers, inner(line))

\* Iter::parse_line: the control flow and the state it leaves.
parse_line(st, line) ==
  CASE st = Start ->
         Continue(IF starts_with(line, PageFeed) THEN Preamble ELSE st)
    [] st = Preamble ->
         Continue(IF starts_with(line, PageFeed) THEN Headers ELSE st)
    [] st = Headers ->
         IF starts_with(line, LineFeed)
         THEN Break(Body, inner(line))
         ELSE Continue(st)
    [] st = Body -> Break(st, inner(line))

\* next where a read failure ends the sequence.
RECURSIVE next_stop_on_failure(_, _, _)
next_stop_on_failure(ls, st, took) ==
  IF ls = <<>> THEN [ret |-> None, lines |-> ls, state |-> st, took |-> took]
  ELSE IF Head(ls).ok
  THEN LET r == parse_line(st, Head(ls).v) IN
       IF r.flow = "Continue"
       THEN next_stop_on_failure(Tail(ls), r.state,
                                 Append(took, [state |-> st, parsed |-> FALSE]))
       ELSE [ret |-> Some(r.res), lines |-> Tail(ls), state |-> r.state,
             took |-> Append(took, [state |-> st, parsed |-> TRUE])]
  ELSE [ret |-> None, lines |-> Tail(ls), state |-> st,
        took |-> Append(took, [state |-> st, parsed |-> FALSE])]

\* Iter::next: the loop over the line source.  ls is what the source still
\* holds; took records, for each item taken from it, the state it was taken
\* in and whether it was handed to the field extractor.
RECURSIVE next(_, _, _)
next(ls, st, took) ==
  IF ls = <<>> THEN [ret |-> None, lines |-> ls, state |-> st, took |-> took]
  ELSE IF Head(ls).ok
  THEN LET r == parse_line(st, Head(ls).v) IN
       IF r.flow = "Continue"
       THEN next(Tail(ls), r.state,
                 Append(took, [state |-> st, parsed |-> FALSE]))
       ELSE [ret |-> Some(r.res), lines |-> Tail(ls), state |-> r.state,
             took |-> Append(took, [state |-> st, parsed |-> TRUE])]
  ELSE [ret |-> Some(Err(from_io_error(Head(ls).e))), lines |-> Tail(ls), state |-> st,
        took |-> Append(took, [state |-> st, parsed |-> FALSE])]

\* Every item of the iterator, to the end of the sequence.
RECURSIVE collect(_, _)
collect(ls, st) ==
  LET r == next(ls, st, <<>>) IN
  IF r.ret.some THEN <<r.ret.v>> \o collect(r.lines, r.state) ELSE <<>>

-----------------------------------------------------------------------------
(* Inputs                                                                  *)

\* The data line of the documentation (134 bytes):
\* "0  1    1    0    1  n         8071.31806     0.00044       0.0
\*  0.0     B-    782.3470     0.0004    1 008664.91590     0.00047"
DocLine ==
  <<48, 32, 32, 49, 32, 32, 32, 32, 49, 32, 32, 32, 32, 48, 32, 32, 32, 32, 49, 32,
    32, 110, 32, 32, 32, 32, 32, 32, 32, 32, 32, 56, 48, 55, 49, 46, 51, 49, 56, 48,
    54, 32, 32, 32, 32, 32, 48, 46, 48, 48, 48, 52, 52, 32, 32, 32, 32, 32, 32, 32,
    48, 46, 48, 32, 32, 32, 32, 32, 32, 32, 32, 48, 46, 48, 32, 32, 32, 32, 32, 66,
    45, 32, 32, 32, 32, 55, 56, 50, 46, 51, 52, 55, 48, 32, 32, 32, 32, 32, 48, 46,
    48, 48, 48, 52, 32, 32, 32, 32, 49, 32, 48, 48, 56, 54, 54, 52, 46, 57, 49, 53,
    57, 48, 32, 32, 32, 32, 32, 48, 46, 48, 48, 48, 52, 55 >>

\* The same line for a nuclide without beta decay: the beta columns blank,
\* '*' at offset 87.
StarLine ==
  [i \in 1..Len(DocLine) |->
     IF i = RangeBetaFlag.start + 1 THEN Star
     ELSE IF i > RangeBetaMean.start /\ i <= RangeBetaUnc.end THEN 32
     ELSE DocLine[i]]

\* One byte at offset p replaced.
Sub(line, p, c) == [line EXCEPT ![p + 1] = c]

\* The two-byte character U+00E9 written over offsets p and p+1.
Wide(line, p) == [line EXCEPT ![p + 1] = 195, ![p + 2] = 169]

Truncate(line, len) == SubSeq(line, 1, len)

\* Whether bytes over {ASCII, 195, 169} are valid UTF-8: every 195 is
\* followed by a 169 and every 169 follows a 195.
Utf8(s) ==
  \A i \in 1..Len(s) :
    /\ s[i] = 195 => i < Len(s) /\ s[i + 1] = 169
    /\ s[i] = 169 => i > 1 /\ s[i - 1] = 195

Offsets(line) == 0..(Len(line) - 1)

\* Lines that differ from a well-formed one in one place: an 'x' or a '#'
\* anywhere, a '*' as the beta flag, a '2' in the atomic-mass integer part,
\* a two-byte character anywhere.
Mutations(line) ==
  {line, Sub(line, RangeBetaFlag.start, Star),
   Sub(line, RangeMassInt.start + 1, 50)}
    \cup {Sub(line, p, c) : p \in Offsets(line), c \in {120, Hash}}
    \cup {Wide(line, p) : p \in 0..(Len(line) - 2)}

\* Openings of the lines that are cut short.
CutBases == {DocLine, Sub(DocLine, 8, 120), Sub(DocLine, 36, 120),
             Wide(DocLine, 8), Wide(DocLine, 19), Wide(DocLine, 21)}

\* Lines with two faulty columns: a malformed atomic-mass integer part
\* together with a malformed proton count, fractional mean or fractional
\* uncertainty, and a malformed beta decay mean with a malformed binding
\* energy uncertainty.
TwoFaults ==
  { Sub(Sub(DocLine, 108, 120), 12, 120),
    Sub(Sub(DocLine, 108, 120), 115, 120),
    Sub(Sub(DocLine, 108, 120), 130, 120),
    Sub(Sub(DocLine, 90, 120), 72, 120) }

\* A line whose element column is full: 'x' and the two bytes of U+00E9.
FullElement ==
  Sub(Wide(DocLine, RangeElement.start + 1), RangeElement.start, 120)

ExtractLines ==
  { l \in Mutations(DocLine) \cup Mutations(StarLine) \cup {FullElement}
        \cup TwoFaults
        \cup {Truncate(b, len) : b \in CutBases, len \in 0..Len(DocLine)} :
      Utf8(l) }

\* What the scanner inputs are made of: a page feed, an empty line, a header,
\* a data line, a data line cut short, a data line with a blank first column,
\* and two read failures.
ScanItems ==
  { Ok(<<PageFeed>>), Ok(<<>>), Ok(<<32, 65>>), Ok(DocLine),
    Ok(Truncate(DocLine, 4)), Ok(Sub(DocLine, 0, 32)),
    Err("InvalidData"), Err("IsADirectory") }

RECURSIVE SeqsUpTo(_, _)
SeqsUpTo(S, n) ==
  IF n = 0 THEN {<<>>}
  ELSE LET shorter == SeqsUpTo(S, n - 1)
       IN shorter \cup {Append(s, x) : s \in shorter, x \in S}

ScanInputs == SeqsUpTo(ScanItems, MaxLines)

\* A preamble with a read failure in it, a data line cut short (which opens
\* the body), one line under test and one more data line.
ExtractInputs ==
  { <<Ok(<<PageFeed>>), Err("InvalidData"), Ok(<<PageFeed>>),
      Ok(Truncate(DocLine, 4)), Ok(l), Ok(DocLine)>> : l \in ExtractLines }

Inputs == ScanInputs \cup ExtractInputs

-----------------------------------------------------------------------------
(* The state machine                                                       *)

VARIABLES
  lines,    \* Iter.lines: what the line source still holds
  state,    \* Iter.state
  input,    \* the line source as it was given to Iter::new
  yielded,  \* the items next has returned, each with the index of its line
  seen,     \* for each item taken from the source: the state, and parsed
  ended     \* whether next has returned end-of-sequence

vars == <<lines, state, input, yielded, seen, ended>>

\* Iter::new
Init ==
  /\ input \in Inputs
  /\ lines = input
  /\ state = Start
  /\ yielded = <<>>
  /\ seen = <<>>
  /\ ended = FALSE

\* One call of Iter::next.
Call ==
  LET r == next(lines, state, <<>>) IN
  /\ lines' = r.lines
  /\ state' = r.state
  /\ seen' = seen \o r.took
  /\ yielded' = IF r.ret.some
                THEN Append(yielded, [at |-> Len(seen) + Len(r.took),
                                      item |-> r.ret.v])
                ELSE yielded
  /\ ended' = (ended \/ ~r.ret.some)
  /\ UNCHANGED input

Next == Call

Spec == Init /\ [][Next]_vars

-----------------------------------------------------------------------------
(* Vocabulary of the properties                                            *)

\* The items next has returned, in order.
Produced == [j \in 1..Len(yielded) |-> yielded[j].item]

\* The indices of the source items next has returned an item for.
YieldedAt == {yielded[j].at : j \in 1..Len(yielded)}

\* The state the scanner was left in after taking source item i.
StateAfter(i) == IF i < Len(seen) THEN seen[i + 1].state ELSE state

\* Source item i is a line (not a read failure) that starts with c.
StartsAt(inp, i, c) == inp[i].ok /\ starts_with(inp[i].v, c)

\* All items of the source are lines.
Readable(inp) == \A i \in 1..Len(inp) : inp[i].ok

\* Two lines starting with '1' and, after them, one starting with '0'.
ReachesBody(inp) ==
  \E i, j, k \in 1..Len(inp) :
    /\ i < j /\ j < k
    /\ StartsAt(inp, i, PageFeed)
    /\ StartsAt(inp, j, PageFeed)
    /\ StartsAt(inp, k, LineFeed)

-----------------------------------------------------------------------------
(* C1 *)

\* C1: on a source of lines that is exhausted before the scanner reaches
\* Body (no two lines starting with '1' followed by a line starting with
\* '0'), every call of next returns end-of-sequence: it yields nothing,
\* leaves the source exhausted and the scanner outside Body.
C1_EmptyBeforeBody ==
  [][(Readable(input) /\ ~ReachesBody(input))
       => /\ ended'
          /\ yielded' = <<>>
          /\ lines' = <<>>
          /\ state' # Body]_vars

\* A source with a data line before the second page feed has been read to
\* its end and nothing was yielded.
C1_Witness ==
  /\ Readable(input) /\ ~ReachesBody(input)
  /\ \E i, j \in 1..Len(input) :
       /\ i < j
       /\ StartsAt(input, i, LineFeed) /\ input[i].v = DocLine
       /\ StartsAt(input, j, PageFeed)
       /\ Cardinality({k \in 1..j : StartsAt(input, k, PageFeed)}) = 2
  /\ ended /\ yielded = <<>> /\ Len(seen) = Len(input)

-----------------------------------------------------------------------------
(* C2 *)

\* C2: a line taken from the source while the scanner is in Start is never
\* handed to the field extractor and no item is yielded for it, whatever it
\* holds.
C2_StartDiscards ==
  \A i \in 1..Len(seen) :
    (seen[i].state = Start /\ input[i].ok)
      => ~seen[i].parsed /\ i \notin YieldedAt

\* A complete data line was taken in Start and passed over, and a later data
\* line was yielded.
C2_Witness ==
  /\ Len(seen) >= 1
  /\ seen[1].state = Start /\ input[1].ok /\ input[1].v = DocLine
  /\ ~seen[1].parsed /\ 1 \notin YieldedAt
  /\ yielded # <<>> /\ yielded[1].item.ok

-----------------------------------------------------------------------------
(* C3 *)

\* The indices of the lines starting with '1'.
PageFeeds(inp) == {i \in 1..Len(inp) : StartsAt(inp, i, PageFeed)}

\* The index of the second line starting with '1'.
SecondPageFeed(inp) ==
  CHOOSE j \in PageFeeds(inp) :
    Cardinality({i \in PageFeeds(inp) : i < j}) = 1

\* The index of the first line starting with '0' after index j, or one past
\* the end.
FirstDataAfter(inp, j) ==
  LET data == {k \in (j + 1)..Len(inp) : StartsAt(inp, k, LineFeed)}
  IN IF data = {} THEN Len(inp) + 1
     ELSE CHOOSE k \in data : \A h \in data : k <= h

\* The places from the second page feed up to the first data line after it:
\* p stands for "right after item p".
HeaderSlots(inp) ==
  IF Cardinality(PageFeeds(inp)) < 2 THEN {}
  ELSE SecondPageFeed(inp)..(FirstDataAfter(inp, SecondPageFeed(inp)) - 1)

InsertAt(inp, p, block) ==
  SubSeq(inp, 1, p) \o block \o SubSeq(inp, p + 1, Len(inp))

\* One or two more lines starting with '1': "1" and "1N-Z".
PageFeedBlocks ==
  { <<Ok(<<PageFeed>>)>>,
    <<Ok(<<PageFeed, 78, 45, 90>>)>>,
    <<Ok(<<PageFeed>>), Ok(<<PageFeed, 78, 45, 90>>)>> }

\* C3: more lines starting with '1', put anywhere between the second page
\* feed and the first line starting with '0' after it, leave the produced
\* sequence as it is: what the scanner yields on the longer source is what
\* it yielded on this one.
C3_ExtraPageFeeds ==
  ended =>
    \A p \in HeaderSlots(input), block \in PageFeedBlocks :
      collect(InsertAt(input, p, block), Start) = Produced

\* A source with a header line between the second page feed and a data line
\* has been read to its end and a record was yielded.
C3_Witness ==
  /\ ended
  /\ Cardinality(HeaderSlots(input)) >= 2
  /\ \E j \in 1..Len(yielded) : yielded[j].item.ok

-----------------------------------------------------------------------------
(* C4 *)

\* C4: of the lines taken in Headers, one that does not start with '0'
\* yields nothing and leaves the scanner in Headers; one that starts with
\* '0' is itself handed to the field extractor, its result is yielded as the
\* first item that is not a read failure, and the scanner is then in Body.
C4_FirstDataLine ==
  \A i \in 1..Len(seen) :
    (seen[i].state = Headers /\ input[i].ok) =>
      IF starts_with(input[i].v, LineFeed)
      THEN /\ seen[i].parsed
           /\ StateAfter(i) = Body
           /\ \E j \in 1..Len(yielded) :
                /\ yielded[j] = [at |-> i, item |-> inner(input[i].v)]
                /\ \A h \in 1..(j - 1) : ~input[yielded[h].at].ok
                /\ Readable(input) => j = 1
      ELSE /\ ~seen[i].parsed
           /\ i \notin YieldedAt
           /\ StateAfter(i) = Headers

\* After a header line taken in Headers, the first data line was yielded as
\* the first item.
C4_Witness ==
  /\ Readable(input)
  /\ \E i \in 2..Len(seen) :
       /\ seen[i - 1].state = Headers /\ ~seen[i - 1].parsed
       /\ seen[i].state = Headers /\ seen[i].parsed
       /\ input[i].v = DocLine
       /\ yielded[1] = [at |-> i, item |-> inner(DocLine)]
  /\ state = Body

-----------------------------------------------------------------------------
(* C5 *)

\* The index of the first line handed to the field extractor.
FirstData(inp) == FirstDataAfter(inp, SecondPageFeed(inp))

\* In Body a call takes one item from the source and yields one item for it.
C5_OneLinePerCall ==
  (state = Body /\ lines # <<>>) =>
    /\ lines' = Tail(lines)
    /\ state' = Body
    /\ Len(seen') = Len(seen) + 1
    /\ Len(yielded') = Len(yielded) + 1
    /\ yielded'[Len(yielded')].at = Len(seen')
    /\ Head(lines).ok =>
         /\ seen'[Len(seen')].parsed
         /\ yielded'[Len(yielded')].item = inner(Head(lines).v)

\* On a readable source the items are those of the lines from the first
\* data line to the end, in order.
C5_OneItemPerLine ==
  (ended /\ Readable(input) /\ ReachesBody(input)) =>
    yielded = [k \in 1..(Len(input) - FirstData(input) + 1) |->
                 [at |-> FirstData(input) + k - 1,
                  item |-> inner(input[FirstData(input) + k - 1].v)]]

\* C5: once the scanner is in Body, each call of next takes exactly one line
\* from the source and yields exactly one item, the result of that line,
\* whatever its first character; so a readable source yields one item per
\* line from the first data line to its end, in source order.
C5_BodyLineByLine == [][C5_OneLinePerCall]_vars /\ []C5_OneItemPerLine

\* A readable source was read to its end, and a line that does not start
\* with '0' was yielded as a record after the first data line.
C5_Witness ==
  /\ ended /\ Readable(input)
  /\ Len(yielded) >= 2
  /\ \E j \in 2..Len(yielded) :
       /\ ~starts_with(input[yielded[j].at].v, LineFeed)
       /\ yielded[j].item.ok

-----------------------------------------------------------------------------
(* Columns, for the properties of the field extractor                      *)

Column(name, range, type) == [name |-> name, range |-> range, type |-> type]

\* The columns of a line, in the order inner extracts them.
Columns(line) ==
  << Column("n", RangeN, "u32"),
     Column("z", RangeZ, "u32"),
     Column("element", RangeElement, "text"),
     Column("mass_excess.mean", RangeMassExcessMean, "f64"),
     Column("mass_excess.uncertainty", RangeMassExcessUnc, "f64"),
     Column("binding_energy_per_a.mean", RangeBindingMean, "f64"),
     Column("binding_energy_per_a.uncertainty", RangeBindingUnc, "f64"),
     Column("beta flag", RangeBetaFlag, "text"),
     Column("beta_decay_energy.mean", RangeBetaMean, "f64"),
     Column("beta_decay_energy.uncertainty", RangeBetaUnc, "f64"),
     Column("atomic_mass.mean", RangeMassMean, "f64"),
     Column("atomic_mass.uncertainty", RangeMassUnc(line), "f64"),
     Column("atomic_mass integer part", RangeMassInt, "u16") >>

ColumnSet(line) == {Columns(line)[k] : k \in 1..Len(Columns(line))}

\* The columns whose range has a fixed end.
FixedColumns(line) ==
  {c \in ColumnSet(line) : c.name # "atomic_mass.uncertainty"}

BetaColumns(line) ==
  {c \in ColumnSet(line) :
     c.name \in {"beta_decay_energy.mean", "beta_decay_energy.uncertainty"}}

\* The text of column c, as inner takes it from the line.
ColumnText(line, c) ==
  IF c.type = "f64"
  THEN range_err(replace(line, Hash, Dot), c.range)
  ELSE range_err(line, c.range)

\* What parsing the text as the column's type gives.
ParseAs(text, type) ==
  CASE type = "u32" -> parse_unsigned(text, U32Max)
    [] type = "u16" -> parse_unsigned(text, U16Max)
    [] type = "f64" -> parse_f64(text)
    [] type = "text" -> Ok(text)

\* What extracting column c alone from the line gives.
ColumnResult(line, c) ==
  IF ColumnText(line, c).ok
  THEN ParseAs(ColumnText(line, c).v, c.type)
  ELSE ColumnText(line, c)

\* The error kind of a numeric column.
ParseKind(c) == IF c.type = "f64" THEN "ParseFloat" ELSE "ParseInt"

\* The column's text is there and does not parse as a number.
Malformed(line, c) ==
  /\ c.type # "text"
  /\ ColumnText(line, c).ok
  /\ ~ParseAs(ColumnText(line, c).v, c.type).ok

\* The line marks the beta decay energy as absent.
FlagIsStar(line) == range_err(line, RangeBetaFlag) = Ok(<<Star>>)

\* The columns inner extracts from the line.
ExtractedColumns(line) ==
  IF FlagIsStar(line) THEN ColumnSet(line) \ BetaColumns(line)
  ELSE ColumnSet(line)

\* The source items handed to the field extractor, and the item of each.
ParsedAt == {i \in 1..Len(seen) : seen[i].parsed}
ItemAt(i) == (CHOOSE j \in 1..Len(yielded) : yielded[j].at = i)
ItemOf(i) == yielded[ItemAt(i)].item

\* The upper bound of the longest required column range.
LongestRequired == RangeMassMean.end

-----------------------------------------------------------------------------
(* C6 *)

\* C6 as stated: every parsed line shorter than 123 yields TooShortLine.
C6_Original ==
  \A i \in ParsedAt :
    Len(input[i].v) < LongestRequired => ItemOf(i) = Err(TooShortLine)

\* The fixed columns that lie within the line.
Within(line) == {c \in FixedColumns(line) : c.range.end <= Len(line)}

\* C6 (amended): a parsed line shorter than 123 never yields a record; it
\* yields TooShortLine when every fixed column that lies within the line is
\* well formed, and otherwise TooShortLine or the error of one of those
\* columns.  Each such line has its own item, so a too-short line does not
\* halt the sequence.
C6_TooShortLine ==
  \A i \in ParsedAt :
    Len(input[i].v) < LongestRequired =>
      /\ i \in YieldedAt
      /\ ~ItemOf(i).ok
      /\ (\A c \in Within(input[i].v) : ColumnResult(input[i].v, c).ok)
           => ItemOf(i) = Err(TooShortLine)
      /\ ItemOf(i) # Err(TooShortLine)
           => \E c \in Within(input[i].v) :
                ColumnResult(input[i].v, c) = ItemOf(i)

\* Two lines shorter than 123, one after the other, each yielded
\* TooShortLine, the second of them 122 bytes long.
C6_Witness ==
  \E j \in 1..(Len(yielded) - 1) :
    /\ yielded[j].item = Err(TooShortLine)
    /\ yielded[j + 1].item = Err(TooShortLine)
    /\ yielded[j + 1].at = yielded[j].at + 1
    /\ seen[yielded[j].at].parsed /\ seen[yielded[j + 1].at].parsed
    /\ Len(input[yielded[j + 1].at].v) = LongestRequired - 1

-----------------------------------------------------------------------------
(* C7 *)

\* The lines that parse to a record.
WellFormedLines == {DocLine, StarLine}

\* The line is a well-formed line but for one two-byte character, written
\* over offsets p and p+1.
OneWide(line, p) ==
  /\ p + 2 <= Len(line)
  /\ line[p + 1] = 195
  /\ \E b \in WellFormedLines : line = Wide(b, p)

WideOffsets(line) == {p \in Offsets(line) : OneWide(line, p)}

\* The character at p, p+1 lies across an end of the range.
Straddles(p, range) == p + 1 = range.start \/ p + 1 = range.end

\* The character at p, p+1 lies in the range.
Inside(p, range) == range.start <= p /\ p + 2 <= range.end

C7_WitnessInside ==
  \E i \in ParsedAt :
    /\ input[i].v = Wide(DocLine, 40)
    /\ i \in YieldedAt
    /\ ItemOf(i) = Err(ParseFloat("Invalid"))

-----------------------------------------------------------------------------
(* C8 *)

\* C8: a read failure of the line source, in whichever state the scanner is,
\* is yielded by the call that takes it as one Io item carrying the kind of
\* the failure, and as no other item.
C8_ReadFailures ==
  \A i \in 1..Len(seen) :
    ~input[i].ok =>
      /\ ~seen[i].parsed
      /\ \E j \in 1..Len(yielded) :
           /\ yielded[j] = [at |-> i, item |-> Err(Io(input[i].e))]
           /\ \A h \in 1..Len(yielded) : yielded[h].at = i => h = j

\* A decode failure taken in Start and a read failure of another kind taken
\* in Headers were both yielded.
C8_Witness ==
  \E i, k \in 1..Len(seen) :
    /\ ~input[i].ok /\ input[i].e = "InvalidData" /\ seen[i].state = Start
    /\ ~input[k].ok /\ input[k].e = "IsADirectory" /\ seen[k].state = Headers
    /\ {i, k} \subseteq YieldedAt
    /\ ItemOf(i) = Err(Io("InvalidData"))
    /\ ItemOf(k) = Err(Io("IsADirectory"))

-----------------------------------------------------------------------------
(* C9 *)

\* One numeric column of the line is malformed and every other column is
\* well formed.
OnlyMalformed(line, c) ==
  /\ Malformed(line, c)
  /\ \A d \in ColumnSet(line) \ {c} : ColumnResult(line, d).ok

\* C9 as stated: the error is that of the one malformed numeric column,
\* whichever column it is.
C9_Original ==
  \A i \in ParsedAt :
    \A c \in ColumnSet(input[i].v) :
      OnlyMalformed(input[i].v, c) =>
        /\ ~ItemOf(i).ok
        /\ ItemOf(i).e.kind = ParseKind(c)

\* C9 (amended): the error is that of the one malformed numeric column,
\* ParseInt for n, z and the atomic-mass integer part and ParseFloat for the
\* others, unless the column is a beta decay column of a line whose flag is
\* '*': that line yields a record.
C9_ParseErrorKind ==
  \A i \in ParsedAt :
    \A c \in ColumnSet(input[i].v) :
      OnlyMalformed(input[i].v, c) =>
        IF c \in ExtractedColumns(input[i].v)
        THEN /\ ItemOf(i) = ColumnResult(input[i].v, c)
             /\ ItemOf(i).e.kind =
                  IF c.name \in {"n", "z", "atomic_mass integer part"}
                  THEN "ParseInt" ELSE "ParseFloat"
        ELSE ItemOf(i).ok

\* A line whose only malformed column is the atomic-mass integer part
\* yielded ParseInt.
C9_Witness ==
  \E i \in ParsedAt :
    /\ input[i].v = Sub(DocLine, 108, 120)
    /\ OnlyMalformed(input[i].v, Column("atomic_mass integer part",
                                        RangeMassInt, "u16"))
    /\ ItemOf(i) = Err(ParseInt("InvalidDigit"))

-----------------------------------------------------------------------------
(* C10 *)

\* The source with item i replaced by a well-formed data line.
Repaired(inp, i) == [inp EXCEPT ![i] = Ok(DocLine)]

\* C10: an error item leaves the scanner ready for the following line.  After
\* a line that failed to parse the scanner is in Body; after a read failure
\* it is in the state it was in; the failed item has no second item; and the
\* calls that follow yield what the scanner yields from the following line
\* on, which is also what they yield when the failed line is replaced by one
\* that parses.
C10_ContinuesAfterError ==
  \A j \in 1..Len(yielded) :
    LET i == yielded[j].at IN
    ~yielded[j].item.ok =>
      /\ i <= Len(seen)
      /\ seen[i].parsed => StateAfter(i) = Body
      /\ ~input[i].ok => StateAfter(i) = seen[i].state
      /\ \A h \in 1..Len(yielded) : yielded[h].at = i => h = j
      /\ j < Len(yielded) => yielded[j + 1].at > i
      /\ ended =>
           /\ SubSeq(Produced, j + 1, Len(yielded))
                = collect(SubSeq(input, i + 1, Len(input)), StateAfter(i))
           /\ seen[i].parsed =>
                collect(Repaired(input, i), Start)
                  = [Produced EXCEPT ![j] = inner(DocLine)]

\* A read failure and a line that failed to parse were each followed by
\* further items, the failed line by a record.
C10_Witness ==
  /\ ended
  /\ \E j, k \in 1..(Len(yielded) - 1) :
       /\ ~yielded[j].item.ok /\ seen[yielded[j].at].parsed
       /\ yielded[j + 1].item.ok
       /\ yielded[j + 1].at = yielded[j].at + 1
       /\ ~yielded[k].item.ok /\ ~input[yielded[k].at].ok
       /\ yielded[k + 1].at > yielded[k].at

-----------------------------------------------------------------------------
(* C11 *)

\* The paired values of a record, each with the column range of its mean.
PairedValues(rec) ==
  { [name |-> "mass_excess", value |-> rec.mass_excess,
     range |-> RangeMassExcessMean],
    [name |-> "binding_energy_per_a", value |-> rec.binding_energy_per_a,
     range |-> RangeBindingMean],
    [name |-> "atomic_mass", value |-> rec.atomic_mass,
     range |-> RangeMassMean] }
  \cup
  ( IF rec.beta_decay_energy.some
    THEN {[name |-> "beta_decay_energy", value |-> rec.beta_decay_energy.v,
           range |-> RangeBetaMean]}
    ELSE {} )

\* The bytes of the line at the offsets of the range.
RawColumn(line, range) == SubSeq(line, range.start + 1, range.end)

\* C11 as stated: in every record, is_estimated of each paired value is true
\* exactly when '#' occurs inside that value's own mean column; a '#'
\* anywhere else on the line does not set it.
C11_Original ==
  \A i \in ParsedAt :
    ItemOf(i).ok =>
      \A p \in PairedValues(ItemOf(i).v) :
        p.value.is_estimated <=> contains(RawColumn(input[i].v, p.range), Hash)

-----------------------------------------------------------------------------
(* C12 *)

BetaMean == Column("beta_decay_energy.mean", RangeBetaMean, "f64")
BetaUnc == Column("beta_decay_energy.uncertainty", RangeBetaUnc, "f64")

\* C12: a record has no beta decay energy exactly when the trimmed text of
\* columns 87-88 of its line is "*"; a line with that flag whose other
\* columns are all well formed yields a record whatever columns 81-94 and
\* 94-105 hold; and a beta decay energy that is present is the pair parsed
\* from columns 81-94 (mean) and 94-105 (uncertainty).
C12_BetaDecayEnergy ==
  \A i \in ParsedAt :
    LET line == input[i].v IN
    /\ ItemOf(i).ok =>
         /\ ~ItemOf(i).v.beta_decay_energy.some <=> FlagIsStar(line)
         /\ ItemOf(i).v.beta_decay_energy.some =>
              /\ Ok(ItemOf(i).v.beta_decay_energy.v.mean)
                   = ColumnResult(line, BetaMean)
              /\ Ok(ItemOf(i).v.beta_decay_energy.v.uncertainty)
                   = ColumnResult(line, BetaUnc)
    /\ ( /\ FlagIsStar(line)
         /\ \A c \in ColumnSet(line) \ BetaColumns(line) :
              ColumnResult(line, c).ok )
       => ItemOf(i).ok

\* A line flagged '*' whose beta mean column does not parse yielded a
\* record without beta decay energy, and a line without the flag yielded a
\* record with the pair of its beta columns.
C12_Witness ==
  \E i, k \in ParsedAt :
    /\ FlagIsStar(input[i].v)
    /\ Malformed(input[i].v, BetaMean)
    /\ ItemOf(i).ok
    /\ ~ItemOf(i).v.beta_decay_energy.some
    /\ ~FlagIsStar(input[k].v)
    /\ ItemOf(k).ok
    /\ ItemOf(k).v.beta_decay_energy.some
    /\ Ok(ItemOf(k).v.beta_decay_energy.v.mean)
         = parse_f64(trim(RawColumn(input[k].v, RangeBetaMean)))

-----------------------------------------------------------------------------
(* C13 *)

MassMean == Column("atomic_mass.mean", RangeMassMean, "f64")
MassUnc(line) == Column("atomic_mass.uncertainty", RangeMassUnc(line), "f64")
MassInt == Column("atomic_mass integer part", RangeMassInt, "u16")

\* Texts of three bytes for the atomic-mass integer part: 999, and a text
\* with '#' in it.
IntParts == {<<57, 57, 57>>, <<32, 35, 49>>}

\* The line with the text t written over columns 106-109.
WithIntPart(line, t) ==
  [k \in 1..Len(line) |->
     IF k > RangeMassInt.start /\ k <= RangeMassInt.end
     THEN t[k - RangeMassInt.start] ELSE line[k]]

\* C13: in every record atomic_mass.mean is the fractional mean of columns
\* 110-123 scaled by 1e-6 plus the integer part of columns 106-109 read as
\* an unsigned 16-bit number, atomic_mass.uncertainty is the text from
\* column 123 to the end of the line scaled by 1e-6 and nothing else, and
\* another integer part on the same line changes neither the uncertainty
\* nor is_estimated.
C13_AtomicMass ==
  \A i \in ParsedAt :
    LET line == input[i].v IN
    ItemOf(i).ok =>
      /\ ItemOf(i).v.atomic_mass.mean
           = AddF64(MulF64(ColumnResult(line, MassMean).v, "1e-6"),
                    FromU16(ColumnResult(line, MassInt).v))
      /\ ItemOf(i).v.atomic_mass.uncertainty
           = MulF64(ColumnResult(line, MassUnc(line)).v, "1e-6")
      /\ \A t \in IntParts :
           inner(WithIntPart(line, t)).ok =>
             /\ inner(WithIntPart(line, t)).v.atomic_mass.uncertainty
                  = ItemOf(i).v.atomic_mass.uncertainty
             /\ inner(WithIntPart(line, t)).v.atomic_mass.is_estimated
                  = ItemOf(i).v.atomic_mass.is_estimated

\* The documentation's line with 21 as integer part yielded a record whose
\* atomic mass is 008664.91590 * 1e-6 + 21 with uncertainty 0.00047 * 1e-6.
C13_Witness ==
  \E i \in ParsedAt :
    /\ input[i].v = Sub(DocLine, RangeMassInt.start + 1, 50)
    /\ ItemOf(i).ok
    /\ ItemOf(i).v.atomic_mass.mean
         = AddF64(MulF64([cls |-> "dec", neg |-> FALSE,
                          int |-> <<0, 0, 8, 6, 6, 4>>,
                          frac |-> <<9, 1, 5, 9, 0>>,
                          exp |-> [neg |-> FALSE, digits |-> <<>>]], "1e-6"),
                  FromU16(21))
    /\ ItemOf(i).v.atomic_mass.uncertainty
         = MulF64([cls |-> "dec", neg |-> FALSE, int |-> <<0>>,
                   frac |-> <<0, 0, 0, 4, 7>>,
                   exp |-> [neg |-> FALSE, digits |-> <<>>]], "1e-6")
    /\ inner(WithIntPart(input[i].v, <<57, 57, 57>>)).ok

-----------------------------------------------------------------------------
(* C14 *)

\* What one call of next does to the source: it takes a prefix of what the
\* source holds, at least one item of it when it returns an item, and it
\* returns the end of the sequence only with the source exhausted.
C14_OneCall ==
  LET taken == Len(seen') - Len(seen) IN
  /\ taken >= 0 /\ taken <= Len(lines)
  /\ lines' = SubSeq(lines, taken + 1, Len(lines))
  /\ Len(yielded') \in {Len(yielded), Len(yielded) + 1}
  /\ Len(yielded') = Len(yielded) + 1 => taken >= 1
  /\ Len(yielded') = Len(yielded) <=> (lines' = <<>> /\ ended')
  /\ Len(yielded') = Len(yielded) + 1 => ended' = ended

\* What has been taken and what remains make up the source, and there are
\* no more items than items taken from the source.
C14_Bounded ==
  /\ Len(seen) + Len(lines) = Len(input)
  /\ Len(yielded) <= Len(seen)
  /\ ended => lines = <<>>

\* C14: every call of next on a finite source takes at least one line when
\* it returns an item, never more than the source holds, and returns the
\* end of the sequence exactly when the source is exhausted without an item
\* in that call; the items never outnumber the lines of the source.
C14_FiniteSource == [][C14_OneCall]_vars /\ []C14_Bounded

\* A source of MaxLines items was read to its end: one call took several
\* lines to return one item, and fewer items were yielded than lines read.
C14_Witness ==
  /\ ended /\ lines = <<>>
  /\ Len(input) = MaxLines
  /\ Len(yielded) >= 2
  /\ Len(yielded) < Len(seen)
  /\ yielded[1].at >= 3

-----------------------------------------------------------------------------
(* C15 *)

\* The place of a state in the order of ReadState.
Rank(st) ==
  CASE st = Start -> 0 [] st = Preamble -> 1 [] st = Headers -> 2
    [] st = Body -> 3

\* C15: the state moves forward only and one step at a time.  The first
\* item of the source is taken in Start; over each item taken, line or read
\* failure, the state stays or moves to the next state of the order; Body is
\* never left; a read failure leaves the state as it is; Start -> Preamble
\* and Preamble -> Headers happen only on a line starting with '1' and
\* Headers -> Body only on a line starting with '0'.
C15_ForwardOnly ==
  /\ state \in {Start, Preamble, Headers, Body}
  /\ seen # <<>> => seen[1].state = Start
  /\ seen = <<>> => state = Start
  /\ \A i \in 1..Len(seen) :
       LET from == seen[i].state
           to == StateAfter(i)
       IN /\ Rank(to) \in {Rank(from), Rank(from) + 1}
          /\ from = Body => to = Body
          /\ ~input[i].ok => to = from
          /\ (from = Start /\ to = Preamble) => StartsAt(input, i, PageFeed)
          /\ (from = Preamble /\ to = Headers) => StartsAt(input, i, PageFeed)
          /\ (from = Headers /\ to = Body) => StartsAt(input, i, LineFeed)

\* A source went through every state in order, with a read failure taken
\* before Headers and an item taken in Body.
C15_Witness ==
  /\ state = Body
  /\ \E a, b, c, f, g \in 1..Len(seen) :
       /\ seen[a].state = Start /\ StateAfter(a) = Preamble
       /\ seen[b].state = Preamble /\ StateAfter(b) = Headers
       /\ seen[c].state = Headers /\ StateAfter(c) = Body
       /\ a < b /\ b < c
       /\ ~input[f].ok /\ f < b
       /\ seen[g].state = Body /\ StateAfter(g) = Body

-----------------------------------------------------------------------------
(* C16 *)

\* The kinds of AmeError.
ErrorKinds == {"Io", "ParseInt", "ParseFloat", "TooShortLine", "StrIndex"}

\* C16: no line makes the scanner panic.  The trimmed text of columns 20-23
\* of a parsed line has at most 3 bytes, so the construction of element
\* never fails, and every item is a record, whose element has at most 3
\* bytes, or an error of one of the five kinds: of the four kinds of the
\* field extractor for a parsed line, Io for a read failure.
C16_NeverPanics ==
  /\ \A i \in ParsedAt :
       /\ range_err(input[i].v, RangeElement).ok =>
            Len(range_err(input[i].v, RangeElement).v) <= ElementCapacity
       /\ ItemOf(i) = inner(input[i].v)
       /\ ~ItemOf(i).ok => ItemOf(i).e.kind \in ErrorKinds \ {"Io"}
  /\ \A j \in 1..Len(yielded) :
       IF yielded[j].item.ok
       THEN Len(yielded[j].item.v.element) <= ElementCapacity
       ELSE /\ yielded[j].item.e # ElementPanic
            /\ yielded[j].item.e.kind \in ErrorKinds

\* A line whose element column holds three bytes yielded a record with
\* that element, and a line cut short yielded TooShortLine.
C16_Witness ==
  /\ \E i \in ParsedAt :
       /\ input[i].v = FullElement
       /\ ItemOf(i).ok
       /\ ItemOf(i).v.element = <<120, 195, 169>>
  /\ \E i \in ParsedAt : ItemOf(i) = Err(TooShortLine)

-----------------------------------------------------------------------------
(* C17 *)

\* C17: the first line starting with '0' that is taken in Headers is handed
\* to the field extractor and leaves the scanner in Body, whether it parses
\* or not; every line taken after it, whatever its first character, is taken
\* in Body, handed to the field extractor and yields its result as an item.
C17_BodyAfterFailedFirstLine ==
  \A i \in 1..Len(seen) :
    (seen[i].state = Headers /\ StartsAt(input, i, LineFeed)) =>
      /\ seen[i].parsed
      /\ StateAfter(i) = Body
      /\ i \in YieldedAt
      /\ ItemOf(i) = inner(input[i].v)
      /\ \A k \in (i + 1)..Len(seen) :
           input[k].ok =>
             /\ seen[k].state = Body
             /\ seen[k].parsed
             /\ k \in YieldedAt
             /\ ItemOf(k) = inner(input[k].v)

\* The first data line yielded an error, and a later line that does not
\* start with '0' was parsed and yielded an item.
C17_Witness ==
  \E i, k \in ParsedAt :
    /\ seen[i].state = Headers
    /\ ~ItemOf(i).ok
    /\ i < k
    /\ ~StartsAt(input, k, LineFeed)
    /\ ItemOf(k) = inner(input[k].v)

-----------------------------------------------------------------------------
(* C18 *)

\* What extracting column c alone gives, step by step: the length of the
\* line is checked first, then the ends of the range against the character
\* boundaries, and then the trimmed text is parsed.
ColumnOutcome(line, c) ==
  IF Len(line) < c.range.end THEN Err(TooShortLine)
  ELSE IF ~is_char_boundary(line, c.range.start)
          \/ ~is_char_boundary(line, c.range.end)
          \/ c.range.start > c.range.end
  THEN Err(StrIndex)
  ELSE ParseAs(trim(RawColumn(IF c.type = "f64"
                              THEN replace(line, Hash, Dot) ELSE line,
                              c.range)),
               c.type)

\* The places, in the order of extraction, of the extracted columns that
\* are faulty.
FaultyPlaces(line) ==
  {k \in 1..Len(Columns(line)) :
     /\ Columns(line)[k] \in ExtractedColumns(line)
     /\ ~ColumnOutcome(line, Columns(line)[k]).ok}

\* The least of a set of places.
First(places) == CHOOSE k \in places : \A h \in places : k <= h

\* C18: a parsed line with faulty columns yields the error of the first
\* faulty column in the order n, z, element, mass excess mean and
\* uncertainty, binding energy mean and uncertainty, beta flag, beta decay
\* mean and uncertainty, atomic-mass fractional mean and uncertainty,
\* atomic-mass integer part; the error of a column is TooShortLine before
\* StrIndex before the parse error.  A line without faulty column yields a
\* record.
C18_FirstFailingColumn ==
  \A i \in ParsedAt :
    LET line == input[i].v
        faulty == FaultyPlaces(line)
    IN IF faulty = {} THEN ItemOf(i).ok
       ELSE ItemOf(i) = ColumnOutcome(line, Columns(line)[First(faulty)])

\* A line with a malformed integer part and a malformed fractional
\* uncertainty of the atomic mass yielded the ParseFloat of the uncertainty.
C18_Witness ==
  \E i \in ParsedAt :
    LET line == input[i].v IN
    /\ line = Sub(Sub(DocLine, 108, 120), 130, 120)
    /\ FaultyPlaces(line) = {12, 13}
    /\ Malformed(line, MassInt)
    /\ ItemOf(i) = Err(ParseFloat("Invalid"))

-----------------------------------------------------------------------------
(* C19 *)

\* A line of exactly 123 bytes whose fixed columns are all well formed.
EndsAtMassMean(line) ==
  /\ Len(line) = LongestRequired
  /\ \A c \in FixedColumns(line) : ColumnResult(line, c).ok

====
